---- MODULE Spec2Model ----
(***************************************************************************)
(* BankConv API (src/main.py): extraction of transaction records from the  *)
(* text of a bank statement, credit/debit classification, date ordering,   *)
(* summary and export, as performed by the upload handler.                 *)
(*                                                                         *)
(* Text is a sequence of one-character strings.  A character up to U+00FF  *)
(* is written as itself, a character above it by its code point, as in     *)
(* "U+0663" for ARABIC-INDIC DIGIT THREE.  Money is a float: a double, in  *)
(* the representation given with to_float below.  An optional value (None, *)
(* NaN, NaT) is the empty sequence, a present one <<v>>.                   *)
(***************************************************************************)
EXTENDS Integers, Sequences, FiniteSets, TLC

None == <<>>
Some(v) == <<v>>

min_of(S) == CHOOSE x \in S : \A y \in S : x <= y
max_of(S) == CHOOSE x \in S : \A y \in S : x >= y

(***************************************************************************)
(* Characters and the str methods the code calls                           *)
(***************************************************************************)
\* the characters \d matches in a str pattern, which are those float() and
\* int() read as digits: the decimal digits of Unicode (category Nd, version
\* 14.0 of the Unicode database, that of Python 3.11), in the order of their
\* code points.  Each row is the digits 0 to 9 of one script, and is named by
\* the code point of its zero.
DECIMALS ==
  << "0", "1", "2", "3", "4", "5", "6", "7", "8", "9",
     "U+0660", "U+0661", "U+0662", "U+0663", "U+0664", "U+0665", "U+0666", "U+0667", "U+0668", "U+0669",
     "U+06F0", "U+06F1", "U+06F2", "U+06F3", "U+06F4", "U+06F5", "U+06F6", "U+06F7", "U+06F8", "U+06F9",
     "U+07C0", "U+07C1", "U+07C2", "U+07C3", "U+07C4", "U+07C5", "U+07C6", "U+07C7", "U+07C8", "U+07C9",
     "U+0966", "U+0967", "U+0968", "U+0969", "U+096A", "U+096B", "U+096C", "U+096D", "U+096E", "U+096F",
     "U+09E6", "U+09E7", "U+09E8", "U+09E9", "U+09EA", "U+09EB", "U+09EC", "U+09ED", "U+09EE", "U+09EF",
     "U+0A66", "U+0A67", "U+0A68", "U+0A69", "U+0A6A", "U+0A6B", "U+0A6C", "U+0A6D", "U+0A6E", "U+0A6F",
     "U+0AE6", "U+0AE7", "U+0AE8", "U+0AE9", "U+0AEA", "U+0AEB", "U+0AEC", "U+0AED", "U+0AEE", "U+0AEF",
     "U+0B66", "U+0B67", "U+0B68", "U+0B69", "U+0B6A", "U+0B6B", "U+0B6C", "U+0B6D", "U+0B6E", "U+0B6F",
     "U+0BE6", "U+0BE7", "U+0BE8", "U+0BE9", "U+0BEA", "U+0BEB", "U+0BEC", "U+0BED", "U+0BEE", "U+0BEF",
     "U+0C66", "U+0C67", "U+0C68", "U+0C69", "U+0C6A", "U+0C6B", "U+0C6C", "U+0C6D", "U+0C6E", "U+0C6F",
     "U+0CE6", "U+0CE7", "U+0CE8", "U+0CE9", "U+0CEA", "U+0CEB", "U+0CEC", "U+0CED", "U+0CEE", "U+0CEF",
     "U+0D66", "U+0D67", "U+0D68", "U+0D69", "U+0D6A", "U+0D6B", "U+0D6C", "U+0D6D", "U+0D6E", "U+0D6F",
     "U+0DE6", "U+0DE7", "U+0DE8", "U+0DE9", "U+0DEA", "U+0DEB", "U+0DEC", "U+0DED", "U+0DEE", "U+0DEF",
     "U+0E50", "U+0E51", "U+0E52", "U+0E53", "U+0E54", "U+0E55", "U+0E56", "U+0E57", "U+0E58", "U+0E59",
     "U+0ED0", "U+0ED1", "U+0ED2", "U+0ED3", "U+0ED4", "U+0ED5", "U+0ED6", "U+0ED7", "U+0ED8", "U+0ED9",
     "U+0F20", "U+0F21", "U+0F22", "U+0F23", "U+0F24", "U+0F25", "U+0F26", "U+0F27", "U+0F28", "U+0F29",
     "U+1040", "U+1041", "U+1042", "U+1043", "U+1044", "U+1045", "U+1046", "U+1047", "U+1048", "U+1049",
     "U+1090", "U+1091", "U+1092", "U+1093", "U+1094", "U+1095", "U+1096", "U+1097", "U+1098", "U+1099",
     "U+17E0", "U+17E1", "U+17E2", "U+17E3", "U+17E4", "U+17E5", "U+17E6", "U+17E7", "U+17E8", "U+17E9",
     "U+1810", "U+1811", "U+1812", "U+1813", "U+1814", "U+1815", "U+1816", "U+1817", "U+1818", "U+1819",
     "U+1946", "U+1947", "U+1948", "U+1949", "U+194A", "U+194B", "U+194C", "U+194D", "U+194E", "U+194F",
     "U+19D0", "U+19D1", "U+19D2", "U+19D3", "U+19D4", "U+19D5", "U+19D6", "U+19D7", "U+19D8", "U+19D9",
     "U+1A80", "U+1A81", "U+1A82", "U+1A83", "U+1A84", "U+1A85", "U+1A86", "U+1A87", "U+1A88", "U+1A89",
     "U+1A90", "U+1A91", "U+1A92", "U+1A93", "U+1A94", "U+1A95", "U+1A96", "U+1A97", "U+1A98", "U+1A99",
     "U+1B50", "U+1B51", "U+1B52", "U+1B53", "U+1B54", "U+1B55", "U+1B56", "U+1B57", "U+1B58", "U+1B59",
     "U+1BB0", "U+1BB1", "U+1BB2", "U+1BB3", "U+1BB4", "U+1BB5", "U+1BB6", "U+1BB7", "U+1BB8", "U+1BB9",
     "U+1C40", "U+1C41", "U+1C42", "U+1C43", "U+1C44", "U+1C45", "U+1C46", "U+1C47", "U+1C48", "U+1C49",
     "U+1C50", "U+1C51", "U+1C52", "U+1C53", "U+1C54", "U+1C55", "U+1C56", "U+1C57", "U+1C58", "U+1C59",
     "U+A620", "U+A621", "U+A622", "U+A623", "U+A624", "U+A625", "U+A626", "U+A627", "U+A628", "U+A629",
     "U+A8D0", "U+A8D1", "U+A8D2", "U+A8D3", "U+A8D4", "U+A8D5", "U+A8D6", "U+A8D7", "U+A8D8", "U+A8D9",
     "U+A900", "U+A901", "U+A902", "U+A903", "U+A904", "U+A905", "U+A906", "U+A907", "U+A908", "U+A909",
     "U+A9D0", "U+A9D1", "U+A9D2", "U+A9D3", "U+A9D4", "U+A9D5", "U+A9D6", "U+A9D7", "U+A9D8", "U+A9D9",
     "U+A9F0", "U+A9F1", "U+A9F2", "U+A9F3", "U+A9F4", "U+A9F5", "U+A9F6", "U+A9F7", "U+A9F8", "U+A9F9",
     "U+AA50", "U+AA51", "U+AA52", "U+AA53", "U+AA54", "U+AA55", "U+AA56", "U+AA57", "U+AA58", "U+AA59",
     "U+ABF0", "U+ABF1", "U+ABF2", "U+ABF3", "U+ABF4", "U+ABF5", "U+ABF6", "U+ABF7", "U+ABF8", "U+ABF9",
     "U+FF10", "U+FF11", "U+FF12", "U+FF13", "U+FF14", "U+FF15", "U+FF16", "U+FF17", "U+FF18", "U+FF19",
     "U+104A0", "U+104A1", "U+104A2", "U+104A3", "U+104A4", "U+104A5", "U+104A6", "U+104A7", "U+104A8", "U+104A9",
     "U+10D30", "U+10D31", "U+10D32", "U+10D33", "U+10D34", "U+10D35", "U+10D36", "U+10D37", "U+10D38", "U+10D39",
     "U+11066", "U+11067", "U+11068", "U+11069", "U+1106A", "U+1106B", "U+1106C", "U+1106D", "U+1106E", "U+1106F",
     "U+110F0", "U+110F1", "U+110F2", "U+110F3", "U+110F4", "U+110F5", "U+110F6", "U+110F7", "U+110F8", "U+110F9",
     "U+11136", "U+11137", "U+11138", "U+11139", "U+1113A", "U+1113B", "U+1113C", "U+1113D", "U+1113E", "U+1113F",
     "U+111D0", "U+111D1", "U+111D2", "U+111D3", "U+111D4", "U+111D5", "U+111D6", "U+111D7", "U+111D8", "U+111D9",
     "U+112F0", "U+112F1", "U+112F2", "U+112F3", "U+112F4", "U+112F5", "U+112F6", "U+112F7", "U+112F8", "U+112F9",
     "U+11450", "U+11451", "U+11452", "U+11453", "U+11454", "U+11455", "U+11456", "U+11457", "U+11458", "U+11459",
     "U+114D0", "U+114D1", "U+114D2", "U+114D3", "U+114D4", "U+114D5", "U+114D6", "U+114D7", "U+114D8", "U+114D9",
     "U+11650", "U+11651", "U+11652", "U+11653", "U+11654", "U+11655", "U+11656", "U+11657", "U+11658", "U+11659",
     "U+116C0", "U+116C1", "U+116C2", "U+116C3", "U+116C4", "U+116C5", "U+116C6", "U+116C7", "U+116C8", "U+116C9",
     "U+11730", "U+11731", "U+11732", "U+11733", "U+11734", "U+11735", "U+11736", "U+11737", "U+11738", "U+11739",
     "U+118E0", "U+118E1", "U+118E2", "U+118E3", "U+118E4", "U+118E5", "U+118E6", "U+118E7", "U+118E8", "U+118E9",
     "U+11950", "U+11951", "U+11952", "U+11953", "U+11954", "U+11955", "U+11956", "U+11957", "U+11958", "U+11959",
     "U+11C50", "U+11C51", "U+11C52", "U+11C53", "U+11C54", "U+11C55", "U+11C56", "U+11C57", "U+11C58", "U+11C59",
     "U+11D50", "U+11D51", "U+11D52", "U+11D53", "U+11D54", "U+11D55", "U+11D56", "U+11D57", "U+11D58", "U+11D59",
     "U+11DA0", "U+11DA1", "U+11DA2", "U+11DA3", "U+11DA4", "U+11DA5", "U+11DA6", "U+11DA7", "U+11DA8", "U+11DA9",
     "U+16A60", "U+16A61", "U+16A62", "U+16A63", "U+16A64", "U+16A65", "U+16A66", "U+16A67", "U+16A68", "U+16A69",
     "U+16AC0", "U+16AC1", "U+16AC2", "U+16AC3", "U+16AC4", "U+16AC5", "U+16AC6", "U+16AC7", "U+16AC8", "U+16AC9",
     "U+16B50", "U+16B51", "U+16B52", "U+16B53", "U+16B54", "U+16B55", "U+16B56", "U+16B57", "U+16B58", "U+16B59",
     "U+1D7CE", "U+1D7CF", "U+1D7D0", "U+1D7D1", "U+1D7D2", "U+1D7D3", "U+1D7D4", "U+1D7D5", "U+1D7D6", "U+1D7D7",
     "U+1D7D8", "U+1D7D9", "U+1D7DA", "U+1D7DB", "U+1D7DC", "U+1D7DD", "U+1D7DE", "U+1D7DF", "U+1D7E0", "U+1D7E1",
     "U+1D7E2", "U+1D7E3", "U+1D7E4", "U+1D7E5", "U+1D7E6", "U+1D7E7", "U+1D7E8", "U+1D7E9", "U+1D7EA", "U+1D7EB",
     "U+1D7EC", "U+1D7ED", "U+1D7EE", "U+1D7EF", "U+1D7F0", "U+1D7F1", "U+1D7F2", "U+1D7F3", "U+1D7F4", "U+1D7F5",
     "U+1D7F6", "U+1D7F7", "U+1D7F8", "U+1D7F9", "U+1D7FA", "U+1D7FB", "U+1D7FC", "U+1D7FD", "U+1D7FE", "U+1D7FF",
     "U+1E140", "U+1E141", "U+1E142", "U+1E143", "U+1E144", "U+1E145", "U+1E146", "U+1E147", "U+1E148", "U+1E149",
     "U+1E2F0", "U+1E2F1", "U+1E2F2", "U+1E2F3", "U+1E2F4", "U+1E2F5", "U+1E2F6", "U+1E2F7", "U+1E2F8", "U+1E2F9",
     "U+1E950", "U+1E951", "U+1E952", "U+1E953", "U+1E954", "U+1E955", "U+1E956", "U+1E957", "U+1E958", "U+1E959",
     "U+1FBF0", "U+1FBF1", "U+1FBF2", "U+1FBF3", "U+1FBF4", "U+1FBF5", "U+1FBF6", "U+1FBF7", "U+1FBF8", "U+1FBF9" >>

Digits == {DECIMALS[k] : k \in 1..Len(DECIMALS)}

\* int(c) of a digit
DigitVal(c) == ((CHOOSE k \in 1..Len(DECIMALS) : DECIMALS[k] = c) - 1) % 10

\* the characters str.strip() removes and str.isspace() accepts: U+0009 to
\* U+000D, U+001C to U+001F, the space, U+0085, U+00A0, and the spaces above
Whitespace ==
  {"\t", "\n", "", "\f", "\r", "", "", "", "", " ", "", " ",
   "U+1680", "U+2000", "U+2001", "U+2002", "U+2003", "U+2004", "U+2005",
   "U+2006", "U+2007", "U+2008", "U+2009", "U+200A", "U+2028", "U+2029",
   "U+202F", "U+205F", "U+3000"}

\* c.upper() == u, for u a character of the markers " CR", "/CR/", " DR",
\* "/DR/".  str.upper() maps a string character by character, and the upper
\* case of no character but c, d and r holds a C, a D, an R, a space or a
\* slash that the character itself is not.
upper_is(c, u) ==
  \/ c = u
  \/ c = "c" /\ u = "C"
  \/ c = "d" /\ u = "D"
  \/ c = "r" /\ u = "R"

\* c.lower() == l, for l a character of ".pdf".  The lower case of no
\* character but P, D and F holds a p, a d, an f or a point that the character
\* itself is not; the rules of str.lower() that look at the neighbours of a
\* character (the final sigma) have no part in these four.
lower_is(c, l) ==
  \/ c = l
  \/ c = "P" /\ l = "p"
  \/ c = "D" /\ l = "d"
  \/ c = "F" /\ l = "f"

\* sub occurs in s at index k
occurs_at(s, sub, k) ==
  /\ k >= 1
  /\ k + Len(sub) - 1 <= Len(s)
  /\ \A j \in 1..Len(sub) : s[k + j - 1] = sub[j]

\* sub occurs in s.upper(), as the upper case of the characters of s from
\* index k on
upper_occurs_at(s, sub, k) ==
  /\ k >= 1
  /\ k + Len(sub) - 1 <= Len(s)
  /\ \A j \in 1..Len(sub) : upper_is(s[k + j - 1], sub[j])

\* sub in s.upper()
upper_contains(s, sub) == \E k \in 1..Len(s) : upper_occurs_at(s, sub, k)

\* s.upper().endswith(sub)
upper_endswith(s, sub) == upper_occurs_at(s, sub, Len(s) - Len(sub) + 1)

\* s.lower().endswith(sub)
lower_endswith(s, sub) ==
  /\ Len(s) >= Len(sub)
  /\ \A j \in 1..Len(sub) : lower_is(s[Len(s) - Len(sub) + j], sub[j])

\* s.strip()
strip(s) ==
  LET keep == {k \in 1..Len(s) : s[k] \notin Whitespace}
  IN IF keep = {} THEN <<>> ELSE SubSeq(s, min_of(keep), max_of(keep))

\* s[k:].replace(old, ""), for old not empty: the occurrences of old, taken
\* from left to right, one after the end of the other
RECURSIVE remove_from(_, _, _)
remove_from(s, old, k) ==
  LET found == {j \in k..(Len(s) - Len(old) + 1) : occurs_at(s, old, j)}
  IN IF found = {} THEN SubSeq(s, k, Len(s))
     ELSE SubSeq(s, k, min_of(found) - 1)
            \o remove_from(s, old, min_of(found) + Len(old))

\* s.replace(old, "")
replace_empty(s, old) == IF old = <<>> THEN s ELSE remove_from(s, old, 1)

\* s.split(sep), for sep a character
RECURSIVE split(_, _)
split(s, sep) ==
  LET found == {k \in 1..Len(s) : s[k] = sep}
  IN IF found = {} THEN <<s>>
     ELSE <<SubSeq(s, 1, min_of(found) - 1)>>
            \o split(SubSeq(s, min_of(found) + 1, Len(s)), sep)

\* s.split("\n")
split_lines(s) == split(s, "\n")

(***************************************************************************)
(* The two regular expressions                                             *)
(***************************************************************************)
\* DATE_PATTERN matches at index k: \d{2}-\d{2}-\d{4}
DATE_PATTERN(s, k) ==
  /\ k >= 1
  /\ k + 9 <= Len(s)
  /\ \A j \in {0, 1, 3, 4, 6, 7, 8, 9} : s[k + j] \in Digits
  /\ s[k + 2] = "-"
  /\ s[k + 5] = "-"

\* DATE_PATTERN.search(line): index of the first match, 0 when there is none
date_search(s) ==
  LET found == {k \in 1..Len(s) : DATE_PATTERN(s, k)}
  IN IF found = {} THEN 0 ELSE min_of(found)

\* the indices at which a run of [\d,] can end for AMOUNT_PATTERN to match:
\* a point and two digits follow
run_ends(s) ==
  {e \in 1..(Len(s) - 3) :
     /\ s[e] \in Digits \/ s[e] = ","
     /\ s[e + 1] = "."
     /\ s[e + 2] \in Digits
     /\ s[e + 3] \in Digits}

\* AMOUNT_PATTERN matches at index k, its run of [\d,] ending at e:
\* [\d,]+\.\d{2}.  The run is the whole run from k on: a shorter one is
\* followed by a digit or a comma, not by the point.
AMOUNT_PATTERN(s, k, e) ==
  /\ k >= 1
  /\ k <= e
  /\ e \in run_ends(s)
  /\ \A j \in k..e : s[j] \in Digits \/ s[j] = ","

\* AMOUNT_PATTERN.findall(line), from index k on: the matches from left to
\* right, each sought after the end of the one before
RECURSIVE findall_from(_, _)
findall_from(s, k) ==
  LET ends == {e \in run_ends(s) : e >= k}
      found == {j \in k..Len(s) : \E e \in ends : AMOUNT_PATTERN(s, j, e)}
  IN IF found = {} THEN <<>>
     ELSE LET e == CHOOSE e \in ends : AMOUNT_PATTERN(s, min_of(found), e)
          IN <<SubSeq(s, min_of(found), e + 3)>> \o findall_from(s, e + 4)

findall(s) == findall_from(s, 1)

(***************************************************************************)
(* float: whole numbers of any size, and the doubles                       *)
(***************************************************************************)
\* int(ds) for a string of at most 4 digits
RECURSIVE digits_value(_)
digits_value(ds) ==
  IF ds = <<>> THEN 0
  ELSE 10 * digits_value(SubSeq(ds, 1, Len(ds) - 1)) + DigitVal(ds[Len(ds)])

\* A whole number is the sequence of its digits in base BASE = 2^15, the
\* least significant first, without leading zeros: 0 is the empty sequence.
BASE == 32768

\* 2^j and 10^j, for small j
pow2(j) ==
  <<1, 2, 4, 8, 16, 32, 64, 128, 256, 512, 1024, 2048, 4096, 8192, 16384, 32768>>[j + 1]

pow10(j) == <<1, 10, 100, 1000, 10000>>[j + 1]

\* x without its leading zeros
big_trim(x) ==
  LET y == SubSeq(x, 1, Len(x))
      used == {i \in 1..Len(y) : y[i] # 0}
  IN IF used = {} THEN <<>> ELSE SubSeq(y, 1, max_of(used))

\* the whole number of digits v[i] < 2^30.  Two rounds of handing the part of
\* each digit from BASE on to the next leave digits of at most BASE; a carry
\* then comes to a digit from a digit that is BASE, through digits of BASE - 1
\* or more.
big_carry(v) ==
  LET n == Len(v) + 2
      at(s, i) == IF i >= 1 /\ i <= Len(s) THEN s[i] ELSE 0
      round(s) ==
        SubSeq([i \in 1..n |-> (at(s, i) % BASE) + (at(s, i - 1) \div BASE)], 1, n)
      w == round(round(v))
      carry(i) ==
        \E j \in 1..(i - 1) : w[j] = BASE /\ \A l \in (j + 1)..(i - 1) : w[l] >= BASE - 1
  IN IF v = <<>> THEN <<>>
     ELSE big_trim([i \in 1..n |-> (w[i] + (IF carry(i) THEN 1 ELSE 0)) % BASE])

\* x + y
big_add(x, y) ==
  LET digit(s, i) == IF i <= Len(s) THEN s[i] ELSE 0
  IN IF x = <<>> THEN y
     ELSE IF y = <<>> THEN x
     ELSE big_carry(SubSeq([i \in 1..(IF Len(x) >= Len(y) THEN Len(x) ELSE Len(y)) |->
                              digit(x, i) + digit(y, i)],
                           1, IF Len(x) >= Len(y) THEN Len(x) ELSE Len(y)))

\* f[lo] + ... + f[hi]
RECURSIVE sum_of(_, _, _)
sum_of(f, lo, hi) ==
  IF lo > hi THEN 0
  ELSE IF lo = hi THEN f[lo]
  ELSE sum_of(f, lo, (lo + hi) \div 2) + sum_of(f, (lo + hi) \div 2 + 1, hi)

\* x * y: digit k takes the low part of the products x[i] * y[j] with
\* i + j - 1 = k and the high part of those with i + j - 1 = k - 1
big_times(x, y) ==
  LET product(i, k) == IF k - i >= 0 /\ k - i < Len(y) THEN x[i] * y[k - i + 1] ELSE 0
      digit(k) ==
        sum_of([i \in 1..Len(x) |->
                  (product(i, k) % BASE) + (product(i, k - 1) \div BASE)], 1, Len(x))
  IN IF x = <<>> \/ y = <<>> THEN <<>>
     ELSE big_carry(SubSeq([k \in 1..(Len(x) + Len(y)) |-> digit(k)], 1, Len(x) + Len(y)))

\* the remainders of the long division of x by k, from digit i of x on
RECURSIVE big_rems(_, _, _)
big_rems(x, k, i) ==
  IF i > Len(x) THEN <<0>>
  ELSE LET t == big_rems(x, k, i + 1)
       IN <<(BASE * t[1] + x[i]) % k>> \o t

\* <<x div k, x mod k>>, for 0 < k < 2^16
big_divmod(x, k) ==
  LET r == big_rems(x, k, 1)
  IN << big_trim([i \in 1..Len(x) |-> (BASE * r[i + 1] + x[i]) \div k]), r[1] >>

\* 10^j
RECURSIVE big_pow10(_)
big_pow10(j) ==
  IF j <= 4 THEN <<pow10(j)>>
  ELSE big_times(big_pow10(j \div 2), big_pow10(j - (j \div 2)))

\* the number written by the decimal digits ds: that of the first half of the
\* string, times the power of ten of the second half, plus that of the second
RECURSIVE big_of_digits(_)
big_of_digits(ds) ==
  IF Len(ds) <= 4 THEN big_trim(<<digits_value(ds)>>)
  ELSE LET h == Len(ds) \div 2
           first == big_of_digits(SubSeq(ds, 1, Len(ds) - h))
           second == big_of_digits(SubSeq(ds, Len(ds) - h + 1, Len(ds)))
       IN IF first = <<>> THEN second
          ELSE big_add(big_times(first, big_pow10(h)), second)

\* the number of binary digits of x
big_bits(x) ==
  IF x = <<>> THEN 0
  ELSE 15 * (Len(x) - 1)
         + (CHOOSE j \in 1..15 : pow2(j - 1) <= x[Len(x)] /\ x[Len(x)] < pow2(j))

\* x * 2^k
big_shl(x, k) ==
  LET low == pow2(15 - (k % 15))
      digit(i) == IF i >= 1 /\ i <= Len(x) THEN x[i] ELSE 0
  IN IF x = <<>> THEN x
     ELSE [i \in 1..(k \div 15) |-> 0]
            \o big_trim([i \in 1..(Len(x) + 1) |->
                           (digit(i) % low) * pow2(k % 15) + (digit(i - 1) \div low)])

\* <<x div 2^k, whether x mod 2^k is not 0>>
big_shr(x, k) ==
  LET w == k \div 15
      low == pow2(k % 15)
      digit(i) == IF i <= Len(x) THEN x[i] ELSE 0
  IN << big_trim([i \in 1..(Len(x) - w) |->
                    (digit(w + i) \div low)
                      + (digit(w + i + 1) % low) * pow2(15 - (k % 15))]),
        \/ \E i \in 1..w : digit(i) # 0
        \/ digit(w + 1) % low # 0 >>

big_odd(x) == x # <<>> /\ x[1] % 2 = 1

\* (x + f) / 2^k rounded to the nearest whole number, a tie to the even one,
\* for k >= 1 and a fraction f that is 0 (sticky FALSE) or in (0, 1)
big_shr_round(x, k, sticky) ==
  LET a == big_shr(x, k - 1)
      q == big_shr(a[1], 1)
  IN IF q[2] /\ (sticky \/ a[2] \/ big_odd(q[1]))
       THEN big_add(q[1], <<1>>)
       ELSE q[1]

\* A double that is neither zero nor inf is <<e, a, b, c, d>>: its value is
\* m * 2^e for the significand m = a * 2^45 + b * 2^30 + c * 2^15 + d of 53
\* binary digits (2^52 <= m < 2^53) and -1074 <= e <= 971.  The floats of this
\* program are not negative, not NaN and, when not 0, not below 0.01; their
\* order is the order of the tuples, read from left to right.
TWO52 == <<0, 0, 0, 128>>
TWO53 == <<0, 0, 0, 256>>

\* 0.0 and inf
ZERO == <<-1075, 0, 0, 0, 0>>
INF == <<972, 0, 0, 0, 0>>

significand(x) == <<x[5], x[4], x[3], x[2]>>

\* m * 2^e for a significand m: inf from 2^1024 on
double(e, m) == IF e > 971 THEN INF ELSE <<e, m[4], m[3], m[2], m[1]>>

\* x < y
less(x, y) ==
  \E i \in 1..5 : x[i] < y[i] /\ \A j \in 1..(i - 1) : x[j] = y[j]

\* the double nearest to (m + f) * 2^e, a tie going to the even significand,
\* for a whole number m >= 2^53 and a fraction f that is 0 (sticky FALSE) or in
\* (0, 1)
round_double(m, e, sticky) ==
  LET k == big_bits(m) - 53
      q == big_shr_round(m, k, sticky)
  IN IF q = TWO53 THEN double(e + k + 1, TWO52) ELSE double(e + k, q)

\* the double nearest to n / 100.  The quotient by 100 of the leading 61
\* binary digits of n has 54 digits or more; the digits left out only tell
\* whether the division is exact.
from_hundredths(n) ==
  IF n = <<>> THEN ZERO
  ELSE LET e == big_bits(n) - 61
           h == IF e < 0 THEN <<big_shl(n, -e), FALSE>> ELSE big_shr(n, e)
           t == big_divmod(h[1], 100)
       IN round_double(t[1], e, t[2] # 0 \/ h[2])

\* float(t), for t a string of digits (maybe none), a point and two digits
to_float(t) ==
  from_hundredths(big_of_digits(SubSeq(t, 1, Len(t) - 3)
                                  \o SubSeq(t, Len(t) - 1, Len(t))))

\* x + y
add(x, y) ==
  IF x = INF \/ y = INF THEN INF
  ELSE IF x = ZERO THEN y
  ELSE IF y = ZERO THEN x
  ELSE LET hi == IF x[1] >= y[1] THEN x ELSE y
           lo == IF x[1] >= y[1] THEN y ELSE x
           d == hi[1] - lo[1]
       IN IF d > 64 THEN hi
          ELSE round_double(big_add(big_shl(significand(hi), d), significand(lo)),
                            lo[1], FALSE)

\* round(x, 2): the double nearest to the whole number of hundredths nearest
\* to x, a tie of the hundredths going to the even one
round2(x) ==
  IF x = INF \/ x = ZERO \/ x[1] >= 0 THEN x
  ELSE from_hundredths(big_shr_round(big_times(significand(x), <<100>>), -x[1], FALSE))

(***************************************************************************)
(* extract_transactions                                                    *)
(***************************************************************************)
\* description: the line without the date and the amounts, stripped
RECURSIVE remove_each(_, _)
remove_each(s, amounts) ==
  IF amounts = <<>> THEN s
  ELSE remove_each(replace_empty(s, Head(amounts)), Tail(amounts))

\* variant: the amount is always the last match
amount_str_always_last(amounts) ==
  replace_empty(amounts[Len(amounts)], <<",">>)

\* amounts[-1].replace(",", "") and, with two matches or more, amounts[-2]
amount_str(amounts) ==
  IF Len(amounts) >= 2 THEN replace_empty(amounts[Len(amounts) - 1], <<",">>)
  ELSE replace_empty(amounts[Len(amounts)], <<",">>)

\* variant: the last match is the balance of a line with a single match too
balance_str_single(amounts) ==
  Some(replace_empty(amounts[Len(amounts)], <<",">>))

\* the balance string, None when the line has a single match
balance_str(amounts) ==
  IF Len(amounts) >= 2 THEN Some(replace_empty(amounts[Len(amounts)], <<",">>))
  ELSE None

\* float(balance) if balance else None: None and the empty string are falsy
balance_value(b) ==
  IF b # None /\ b[1] # <<>> THEN Some(to_float(b[1])) ELSE None

\* variant: a line without a date is not skipped
extract_line_undated(line) ==
  LET d == date_search(line)
      amounts == findall(line)
      date == IF d = 0 THEN <<>> ELSE SubSeq(line, d, d + 9)
  IN IF amounts = <<>> THEN <<>>
     ELSE << [date |-> date,
              description |-> strip(remove_each(replace_empty(line, date), amounts)),
              amount |-> to_float(amount_str(amounts)),
              balance |-> balance_value(balance_str(amounts)),
              type |-> "unknown"] >>

\* one iteration of the loop over the lines: the records the line appends
extract_line(line) ==
  LET d == date_search(line)
      amounts == findall(line)
  IN IF d = 0 THEN <<>>
     ELSE IF amounts = <<>> THEN <<>>
     ELSE LET date == SubSeq(line, d, d + 9)
          IN << [date |-> date,
                 description |-> strip(remove_each(replace_empty(line, date), amounts)),
                 amount |-> to_float(amount_str(amounts)),
                 balance |-> balance_value(balance_str(amounts)),
                 type |-> "unknown"] >>

RECURSIVE extract_lines(_)
extract_lines(lines) ==
  IF lines = <<>> THEN <<>>
  ELSE extract_line(Head(lines)) \o extract_lines(Tail(lines))

extract_transactions(text) == extract_lines(split_lines(text))

(***************************************************************************)
(* apply_transaction_logic: one iteration of the loop over the records     *)
(***************************************************************************)
\* " CR" in desc or "/CR/" in desc or desc.endswith("CR"), for desc the
\* description in upper case
credit_marker(description) ==
  \/ upper_contains(description, <<" ", "C", "R">>)
  \/ upper_contains(description, <<"/", "C", "R", "/">>)
  \/ upper_endswith(description, <<"C", "R">>)

debit_marker(description) ==
  \/ upper_contains(description, <<" ", "D", "R">>)
  \/ upper_contains(description, <<"/", "D", "R", "/">>)
  \/ upper_endswith(description, <<"D", "R">>)

\* variant: the comparison of the balances comes before the markers
classify_delta_first(txn, prev_balance) ==
  LET curr_balance == txn.balance
  IN IF prev_balance # None /\ curr_balance # None /\ less(prev_balance[1], curr_balance[1])
       THEN "credit"
     ELSE IF prev_balance # None /\ curr_balance # None /\ less(curr_balance[1], prev_balance[1])
       THEN "debit"
     ELSE IF credit_marker(txn.description) THEN "credit"
     ELSE IF debit_marker(txn.description) THEN "debit"
     ELSE txn.type

\* variant: an unchanged balance counts as a credit
classify_tie_credit(txn, prev_balance) ==
  LET curr_balance == txn.balance
  IN IF credit_marker(txn.description) THEN "credit"
     ELSE IF debit_marker(txn.description) THEN "debit"
     ELSE IF prev_balance # None /\ curr_balance # None
       THEN IF ~less(curr_balance[1], prev_balance[1]) THEN "credit" ELSE "debit"
     ELSE txn.type

\* the type of txn after the if / elif chain, given prev_balance
classify(txn, prev_balance) ==
  LET curr_balance == txn.balance
  IN IF credit_marker(txn.description) THEN "credit"
     ELSE IF debit_marker(txn.description) THEN "debit"
     ELSE IF prev_balance # None /\ curr_balance # None
       THEN IF less(prev_balance[1], curr_balance[1]) THEN "credit"
            ELSE IF less(curr_balance[1], prev_balance[1]) THEN "debit"
            ELSE txn.type
     ELSE txn.type

\* variant: "if curr_balance" in place of "if curr_balance is not None"
next_prev_balance_truthy(txn, prev_balance) ==
  IF txn.balance # None /\ txn.balance[1] # ZERO THEN txn.balance ELSE prev_balance

\* prev_balance = curr_balance if curr_balance is not None else prev_balance
next_prev_balance(txn, prev_balance) ==
  IF txn.balance # None THEN txn.balance ELSE prev_balance

(***************************************************************************)
(* The data frame: to_datetime, sort_values, the summary                   *)
(***************************************************************************)
is_leap(y) == (y % 4 = 0 /\ y % 100 # 0) \/ y % 400 = 0

days_in_month(y, m) ==
  IF m = 2 THEN (IF is_leap(y) THEN 29 ELSE 28)
  ELSE IF m \in {4, 6, 9, 11} THEN 30
  ELSE 31

\* pd.to_datetime(token, format="%d-%m-%Y", errors="coerce") of pandas 1.x and
\* 2.x, for a token DATE_PATTERN matched: the date as yyyymmdd, or NaT (None).
\* The token is matched against the regular expression of the format, which
\* has 3[0-1]|[1-2]\d|0[1-9] for the two characters of %d, 1[0-2]|0[1-9] for
\* those of %m and \d\d\d\d for %Y; the three parts are read with int(); a
\* date that is not in the calendar, or is outside the range of a nanosecond
\* timestamp (1677-09-22 .. 2262-04-11), gives NaT.
to_datetime(tok) ==
  LET nonzero == {"1", "2", "3", "4", "5", "6", "7", "8", "9"}
      day == \/ tok[1] = "3" /\ tok[2] \in {"0", "1"}
             \/ tok[1] \in {"1", "2"} /\ tok[2] \in Digits
             \/ tok[1] = "0" /\ tok[2] \in nonzero
      month == \/ tok[4] = "1" /\ tok[5] \in {"0", "1", "2"}
               \/ tok[4] = "0" /\ tok[5] \in nonzero
      d == digits_value(SubSeq(tok, 1, 2))
      m == digits_value(SubSeq(tok, 4, 5))
      y == digits_value(SubSeq(tok, 7, 10))
      key == 10000 * y + 100 * m + d
  IN IF /\ day
        /\ month
        /\ d <= days_in_month(y, m)
        /\ key >= 16770922 /\ key <= 22620411
       THEN Some(key)
       ELSE None

swap(t, a, b) == [t EXCEPT ![a] = t[b], ![b] = t[a]]

\* numpy's argsort of kind "quicksort" (the default kind of sort_values):
\* ranges of more than SMALL_QUICKSORT + 1 elements are partitioned around the
\* median of three, shorter ones are sorted by insertion.  v are the keys and
\* t the permutation being sorted, over the range pl..pr.
SMALL_QUICKSORT == 16

RECURSIVE insertion_inner(_, _, _, _, _)
\* shifts the elements greater than vp one place up, from pj down to pl
insertion_inner(v, t, pl, pj, vi) ==
  IF pj > pl /\ v[vi] < v[t[pj - 1]]
    THEN insertion_inner(v, [t EXCEPT ![pj] = t[pj - 1]], pl, pj - 1, vi)
    ELSE [t EXCEPT ![pj] = vi]

RECURSIVE insertion_sort(_, _, _, _, _)
insertion_sort(v, t, pl, pr, pi) ==
  IF pi > pr THEN t
  ELSE insertion_sort(v, insertion_inner(v, t, pl, pi, t[pi]), pl, pr, pi + 1)

RECURSIVE scan_up(_, _, _, _)
\* do ++pi while v[t[pi]] < vp
scan_up(v, t, pi, vp) ==
  IF v[t[pi + 1]] < vp THEN scan_up(v, t, pi + 1, vp) ELSE pi + 1

RECURSIVE scan_down(_, _, _, _)
\* do --pj while vp < v[t[pj]]
scan_down(v, t, pj, vp) ==
  IF vp < v[t[pj - 1]] THEN scan_down(v, t, pj - 1, vp) ELSE pj - 1

RECURSIVE partition_loop(_, _, _, _, _)
\* the for (;;) loop: the permutation and the final pi
partition_loop(v, t, pi, pj, vp) ==
  LET i2 == scan_up(v, t, pi, vp)
      j2 == scan_down(v, t, pj, vp)
  IN IF i2 >= j2 THEN <<t, i2>>
     ELSE partition_loop(v, swap(t, i2, j2), i2, j2, vp)

\* one partition of pl..pr: the permutation and the pivot's final place
partition(v, t, pl, pr) ==
  LET pm == pl + ((pr - pl) \div 2)
      t1 == IF v[t[pm]] < v[t[pl]] THEN swap(t, pm, pl) ELSE t
      t2 == IF v[t1[pr]] < v[t1[pm]] THEN swap(t1, pr, pm) ELSE t1
      t3 == IF v[t2[pm]] < v[t2[pl]] THEN swap(t2, pm, pl) ELSE t2
      vp == v[t3[pm]]
      t4 == swap(t3, pm, pr - 1)
      res == partition_loop(v, t4, pl, pr - 1, vp)
  IN <<swap(res[1], res[2], pr - 1), res[2]>>

\* numpy's indirect introsort behind kind="quicksort": ranges of more than
\* SMALL_QUICKSORT + 1 elements are partitioned around a median of three, the
\* rest is insertion-sorted; the heapsort fallback needs a recursion depth
\* that frames of MaxSortLen rows do not reach
RECURSIVE aquicksort(_, _, _, _)
aquicksort(v, t, pl, pr) ==
  IF pr - pl > SMALL_QUICKSORT
    THEN LET res == partition(v, t, pl, pr)
             pi == res[2]
         IN aquicksort(v, aquicksort(v, res[1], pl, pi - 1), pi + 1, pr)
    ELSE insertion_sort(v, t, pl, pr, pl + 1)

\* v.argsort(kind="quicksort")
argsort(v) == aquicksort(v, [k \in 1..Len(v) |-> k], 1, Len(v))

\* the indices k of dates for which dates[k] is NaT (nat = TRUE) or is not
RECURSIVE indices_where(_, _, _)
indices_where(dates, nat, k) ==
  IF k > Len(dates) THEN <<>>
  ELSE (IF (dates[k] = None) = nat THEN <<k>> ELSE <<>>)
         \o indices_where(dates, nat, k + 1)

\* pandas' nargsort with na_position "last": the rows with a date in the order
\* argsort gives them, then the rows with NaT in their own order
nargsort(dates) ==
  LET non_nan_idx == indices_where(dates, FALSE, 1)
      nan_idx == indices_where(dates, TRUE, 1)
      non_nans == [k \in 1..Len(non_nan_idx) |-> dates[non_nan_idx[k]][1]]
      perm == argsort(non_nans)
  IN [k \in 1..Len(non_nan_idx) |-> non_nan_idx[perm[k]]] \o nan_idx

\* df = pd.DataFrame(transactions); df["date"] = pd.to_datetime(...)
data_frame(transactions) ==
  [k \in 1..Len(transactions) |->
     [transactions[k] EXCEPT !.date = to_datetime(transactions[k].date)]]

\* df.sort_values("date").reset_index(drop=True)
sort_values(df) ==
  LET indexer == nargsort([k \in 1..Len(df) |-> df[k].date])
  IN [k \in 1..Len(df) |-> df[indexer[k]]]

\* df[df["type"] == type]["amount"]
RECURSIVE amounts_of(_, _)
amounts_of(df, type) ==
  IF df = <<>> THEN <<>>
  ELSE (IF Head(df).type = type THEN <<Head(df).amount>> ELSE <<>>)
         \o amounts_of(Tail(df), type)

\* res += a[i], for i from lo to hi
RECURSIVE sum_from(_, _, _, _)
sum_from(a, lo, hi, res) ==
  IF lo > hi THEN res ELSE sum_from(a, lo + 1, hi, add(res, a[lo]))

\* r += a[i], for i from lo to hi in steps of eight
RECURSIVE sum_eighth(_, _, _, _)
sum_eighth(a, lo, hi, r) ==
  IF lo > hi THEN r ELSE sum_eighth(a, lo + 8, hi, add(r, a[lo]))

\* numpy's sum of a float64 array, which Series.sum() returns: the pairwise
\* summation of the n elements of a from index lo on.  Fewer than eight are
\* added one after the other; up to PW_BLOCKSIZE go to eight partial sums that
\* are added in pairs, the elements over a multiple of eight last; more are
\* split in two.
PW_BLOCKSIZE == 128

RECURSIVE pairwise_sum(_, _, _)
pairwise_sum(a, lo, n) ==
  IF n < 8 THEN sum_from(a, lo, lo + n - 1, ZERO)
  ELSE IF n <= PW_BLOCKSIZE
    THEN LET whole == n - (n % 8)
             r == [j \in 0..7 |-> sum_eighth(a, lo + 8 + j, lo + whole - 1, a[lo + j])]
             res == add(add(add(r[0], r[1]), add(r[2], r[3])),
                        add(add(r[4], r[5]), add(r[6], r[7])))
         IN sum_from(a, lo + whole, lo + n - 1, res)
  ELSE LET n2 == (n \div 2) - ((n \div 2) % 8)
       IN add(pairwise_sum(a, lo, n2), pairwise_sum(a, lo + n2, n - n2))

\* df[df["type"] == type]["amount"].sum()
total_amount(df, type) ==
  LET a == amounts_of(df, type)
  IN pairwise_sum(a, 1, Len(a))

\* df["balance"].dropna()
RECURSIVE dropna(_)
dropna(df) ==
  IF df = <<>> THEN <<>>
  ELSE (IF Head(df).balance # None THEN <<Head(df).balance[1]>> ELSE <<>>)
         \o dropna(Tail(df))

\* variant: the balances of the first and the last row, without dropna
summary_of_rows(df) ==
  [total_transactions |-> Len(df),
   total_credit |-> round2(total_amount(df, "credit")),
   total_debit |-> round2(total_amount(df, "debit")),
   opening_balance |-> IF df # <<>> THEN df[1].balance ELSE None,
   closing_balance |-> IF df # <<>> THEN df[Len(df)].balance ELSE None]

\* the "summary" object of the response
summary_of(df) ==
  LET balances == dropna(df)
  IN [total_transactions |-> Len(df),
      total_credit |-> round2(total_amount(df, "credit")),
      total_debit |-> round2(total_amount(df, "debit")),
      opening_balance |-> IF balances # <<>> THEN Some(balances[1]) ELSE None,
      closing_balance |-> IF balances # <<>> THEN Some(balances[Len(balances)]) ELSE None]

\* JSONResponse renders its content with json.dumps(allow_nan=False), which
\* raises ValueError for a float that is inf
json_compliant(summary) ==
  /\ summary.total_credit # INF
  /\ summary.total_debit # INF
  /\ summary.opening_balance # Some(INF)
  /\ summary.closing_balance # Some(INF)

(***************************************************************************)
(* Names and paths of an upload                                            *)
(***************************************************************************)
UPLOAD_DIR == <<"u", "p", "l", "o", "a", "d", "s">>
EXPORT_DIR == <<"e", "x", "p", "o", "r", "t", "s">>

\* 5 * 1024 * 1024
max_file_size == 5 * 1024 * 1024

last_index(p, c) ==
  LET found == {k \in 1..Len(p) : p[k] = c}
  IN IF found = {} THEN 0 ELSE max_of(found)

\* os.path.splitext(filename)[0], of posixpath
splitext_root(p) ==
  LET sep == last_index(p, "/")
      dot == last_index(p, ".")
  IN IF dot > sep /\ \E k \in (sep + 1)..(dot - 1) : p[k] # "."
       THEN SubSeq(p, 1, dot - 1)
       ELSE p

\* variant: the name without the identifier
safe_name_plain(filename, file_id) == splitext_root(filename)

\* safe_name = f"{base_name}_{file_id}"
safe_name(filename, file_id) == splitext_root(filename) \o <<"_">> \o file_id

\* os.path.join(dir, name), of posixpath, for dir without a final "/": a name
\* that starts with "/" is the path, without the directory
path_join(dir, name) ==
  IF name # <<>> /\ name[1] = "/" THEN name ELSE dir \o <<"/">> \o name

pdf_path(name) == path_join(UPLOAD_DIR, name \o <<".", "p", "d", "f">>)
csv_path(name) == path_join(EXPORT_DIR, name \o <<".", "c", "s", "v">>)
excel_path(name) == path_join(EXPORT_DIR, name \o <<".", "x", "l", "s", "x">>)

\* the directory a path of the three above lies in, found as the kernel
\* walks the path from left to right.  "made": uploads/ or exports/, which
\* lines 34-35 make, for a name that names no directory but ".".  "missing":
\* the first directory the name names lies below one of the two, where
\* nothing in the program makes one (a ".." after it does not help: the
\* walk has failed by then).  "outside": the name is absolute or goes up
\* with ".." first; whether that directory is there is not up to the program.
directory(path) ==
  LET parts == split(path, "/")
      named == {k \in 2..(Len(parts) - 1) : parts[k] \notin {<<>>, <<".">>}}
  IN IF parts[1] = <<>> THEN "outside"
     ELSE IF named = {} THEN "made"
     ELSE IF parts[min_of(named)] = <<".", ".">> THEN "outside"
     ELSE "missing"

(***************************************************************************)
(* State.  req[r] is upload request r: where it stands in upload_pdf (pc),  *)
(* its inputs and its locals.  files is the files of the file system the   *)
(* requests have written (each path with the request that wrote it last),  *)
(* issued the identifiers uuid4 has returned.                              *)
(***************************************************************************)
VARIABLES req, files, issued

vars == <<req, files, issued>>

NumRequests == 2
Requests == 1..NumRequests

\* uuid4().hex: 32 hexadecimal digits, the 13th a 4 and the 17th one of 8, 9,
\* a, b; a call returns an identifier no earlier call has returned
Uuids ==
  {[j \in 1..32 |-> IF j = 13 THEN "4" ELSE IF j = 17 THEN "8"
                    ELSE IF j = 32 THEN DECIMALS[k + 1] ELSE "0"] :
     k \in 1..NumRequests}

idle ==
  [pc |-> "idle", filename |-> <<>>, size |-> None, text |-> <<>>,
   transactions |-> <<>>, i |-> 0, prev_balance |-> None, df |-> <<>>,
   file_id |-> <<>>, written |-> {}, status |-> 0, detail |-> "", summary |-> None]

\* a request as it enters upload_pdf
arrived(filename, size, text) ==
  [idle EXCEPT !.pc = "validate", !.filename = filename, !.size = size, !.text = text]

\* raise HTTPException(status_code, detail)
raise(r, status_code, detail) ==
  req' = [req EXCEPT ![r].pc = "done", ![r].status = status_code, ![r].detail = detail]

\* an exception nothing catches: the response has status 500
crashed(q, detail) == [q EXCEPT !.pc = "done", !.status = 500, !.detail = detail]

\* the files after request r wrote path: what was there is overwritten
write_file(fs, path, r) ==
  {f \in fs : f.path # path} \cup {[path |-> path, owner |-> r]}

(***************************************************************************)
(* upload_pdf, step by step                                                *)
(***************************************************************************)
\* lines 117-121: the checks of the file name and of the size
Validate(r) ==
  /\ req[r].pc = "validate"
  /\ IF ~lower_endswith(req[r].filename, <<".", "p", "d", "f">>)
       THEN raise(r, 400, "Only PDF files allowed")
     ELSE IF req[r].size # None /\ req[r].size[1] # 0 /\ req[r].size[1] > max_file_size
       THEN raise(r, 400, "Max file size is 5MB")
     ELSE req' = [req EXCEPT ![r].pc = "save"]
  /\ UNCHANGED <<files, issued>>

\* lines 123-130: the identifier, the names, the copy of the upload.  open()
\* raises when the directory is missing, and may raise when it is there (no
\* permission, a name too long for the file system, no space); copyfileobj
\* may raise after open() has made the file.  Nothing catches either.
SaveUpload(r) ==
  /\ req[r].pc = "save"
  /\ \E file_id \in Uuids \ issued :
       LET path == pdf_path(safe_name(req[r].filename, file_id))
       IN /\ issued' = issued \cup {file_id}
          /\ \/ /\ UNCHANGED files
                /\ req' = [req EXCEPT ![r] = crashed([@ EXCEPT !.file_id = file_id],
                                                     "Internal Server Error")]
             \/ /\ directory(path) # "missing"
                /\ files' = write_file(files, path, r)
                /\ req' = [req EXCEPT ![r] =
                             crashed([@ EXCEPT !.file_id = file_id,
                                               !.written = @ \cup {path}],
                                     "Internal Server Error")]
             \/ /\ directory(path) # "missing"
                /\ files' = write_file(files, path, r)
                /\ req' = [req EXCEPT ![r].pc = "read", ![r].file_id = file_id,
                             ![r].written = @ \cup {path}]

\* lines 132-138: pdfplumber reads the text of the pages, or fails
ReadPdf(r) ==
  /\ req[r].pc = "read"
  /\ \/ raise(r, 400, "Failed to read PDF")
     \/ req' = [req EXCEPT ![r].pc = "check_text"]
  /\ UNCHANGED <<files, issued>>

\* lines 140-141
CheckText(r) ==
  /\ req[r].pc = "check_text"
  /\ IF strip(req[r].text) = <<>>
       THEN raise(r, 400, "Empty or scanned PDF")
       ELSE req' = [req EXCEPT ![r].pc = "extract"]
  /\ UNCHANGED <<files, issued>>

\* line 143, and line 84 of apply_transaction_logic
Extract(r) ==
  /\ req[r].pc = "extract"
  /\ req' = [req EXCEPT ![r].pc = "classify",
               ![r].transactions = extract_transactions(req[r].text),
               ![r].i = 1, ![r].prev_balance = None]
  /\ UNCHANGED <<files, issued>>

\* lines 86-103: one iteration of the loop of apply_transaction_logic
ApplyLogicStep(r) ==
  /\ req[r].pc = "classify"
  /\ req[r].i <= Len(req[r].transactions)
  /\ LET txn == req[r].transactions[req[r].i]
     IN req' = [req EXCEPT ![r].transactions[req[r].i].type = classify(txn, req[r].prev_balance),
                  ![r].prev_balance = next_prev_balance(txn, @),
                  ![r].i = @ + 1]
  /\ UNCHANGED <<files, issued>>

\* lines 105 and 144: the loop is over
ApplyLogicReturn(r) ==
  /\ req[r].pc = "classify"
  /\ req[r].i > Len(req[r].transactions)
  /\ req' = [req EXCEPT ![r].pc = "check_empty"]
  /\ UNCHANGED <<files, issued>>

\* lines 146-147
CheckEmpty(r) ==
  /\ req[r].pc = "check_empty"
  /\ IF req[r].transactions = <<>>
       THEN raise(r, 400, "No transactions found")
       ELSE req' = [req EXCEPT ![r].pc = "frame"]
  /\ UNCHANGED <<files, issued>>

\* lines 149-152
BuildFrame(r) ==
  /\ req[r].pc = "frame"
  /\ req' = [req EXCEPT ![r].pc = "csv",
               ![r].df = sort_values(data_frame(req[r].transactions))]
  /\ UNCHANGED <<files, issued>>

\* lines 154 and 157: to_csv writes the file, or raises before it has made
\* the file, or raises after; nothing catches the exception and nothing
\* removes a file already written
WriteCsv(r) ==
  /\ req[r].pc = "csv"
  /\ LET path == csv_path(safe_name(req[r].filename, req[r].file_id))
     IN \/ /\ directory(path) # "missing"
           /\ files' = write_file(files, path, r)
           /\ req' = [req EXCEPT ![r].pc = "excel", ![r].written = @ \cup {path}]
        \/ /\ directory(path) # "missing"
           /\ files' = write_file(files, path, r)
           /\ req' = [req EXCEPT ![r] = crashed([@ EXCEPT !.written = @ \cup {path}],
                                                "Internal Server Error")]
        \/ /\ UNCHANGED files
           /\ req' = [req EXCEPT ![r] = crashed(@, "Internal Server Error")]
  /\ UNCHANGED issued

\* lines 155 and 158: to_excel, likewise
WriteExcel(r) ==
  /\ req[r].pc = "excel"
  /\ LET path == excel_path(safe_name(req[r].filename, req[r].file_id))
     IN \/ /\ directory(path) # "missing"
           /\ files' = write_file(files, path, r)
           /\ req' = [req EXCEPT ![r].pc = "respond", ![r].written = @ \cup {path}]
        \/ /\ directory(path) # "missing"
           /\ files' = write_file(files, path, r)
           /\ req' = [req EXCEPT ![r] = crashed([@ EXCEPT !.written = @ \cup {path}],
                                                "Internal Server Error")]
        \/ /\ UNCHANGED files
           /\ req' = [req EXCEPT ![r] = crashed(@, "Internal Server Error")]
  /\ UNCHANGED issued

\* lines 160-178: the summary, and the response that carries it or, when the
\* summary has an inf, the ValueError of JSONResponse
Respond(r) ==
  /\ req[r].pc = "respond"
  /\ LET q == [req[r] EXCEPT !.summary = Some(summary_of(req[r].df))]
     IN req' = [req EXCEPT ![r] =
                  IF json_compliant(q.summary[1])
                    THEN [q EXCEPT !.pc = "done", !.status = 200,
                                   !.detail = "Statement processed successfully"]
                    ELSE crashed(q, "Out of range float values are not JSON compliant")]
  /\ UNCHANGED <<files, issued>>

Next ==
  \E r \in Requests :
    \/ Validate(r)
    \/ SaveUpload(r)
    \/ ReadPdf(r)
    \/ CheckText(r)
    \/ Extract(r)
    \/ ApplyLogicStep(r)
    \/ ApplyLogicReturn(r)
    \/ CheckEmpty(r)
    \/ BuildFrame(r)
    \/ WriteCsv(r)
    \/ WriteExcel(r)
    \/ Respond(r)

(***************************************************************************)
(* Inputs                                                                  *)
(***************************************************************************)
\* the sequences over S of length lo..hi
SeqsOf(S, lo, hi) == UNION {[1..n -> S] : n \in lo..hi}

RECURSIVE join_lines(_)
\* "\n".join(lines)
join_lines(lines) ==
  IF lines = <<>> THEN <<>>
  ELSE IF Len(lines) = 1 THEN lines[1]
  ELSE lines[1] \o <<"\n">> \o join_lines(Tail(lines))

RECURSIVE spaced(_)
\* the tokens, each after a space
spaced(tokens) ==
  IF tokens = <<>> THEN <<>>
  ELSE <<" ">> \o Head(tokens) \o spaced(Tail(tokens))

D0101 == <<"0", "1", "-", "0", "1", "-", "2", "0", "2", "4">>
D0501 == <<"0", "5", "-", "0", "1", "-", "2", "0", "2", "4">>
D1001 == <<"1", "0", "-", "0", "1", "-", "2", "0", "2", "4">>
\* 31 February: matches DATE_PATTERN, is no calendar date
D3102 == <<"3", "1", "-", "0", "2", "-", "2", "0", "2", "4">>
\* 01-01-2024 in Arabic-Indic digits: matches DATE_PATTERN; the format of
\* to_datetime does not take its day and month
UD0101 == <<"U+0660", "U+0661", "-", "U+0660", "U+0661", "-",
            "U+0662", "U+0660", "U+0662", "U+0664">>
\* 15-01-2024 with an Arabic-Indic 5 and an Arabic-Indic year: to_datetime
\* reads it
MD1501 == <<"1", "U+0665", "-", "0", "1", "-",
            "U+0662", "U+0660", "U+0662", "U+0664">>

A0 == <<"0", ".", "0", "0">>
A1 == <<"1", ".", "0", "0">>
A100 == <<"1", "0", "0", ".", "0", "0">>
A250 == <<"2", "5", "0", ".", "5", "0">>
A1000 == <<"1", ",", "0", "0", "0", ".", "0", "0">>
\* 100.00 in Arabic-Indic digits
UA100 == <<"U+0661", "U+0660", "U+0660", ".", "U+0660", "U+0660">>
\* 2^53 + 1, half way between two doubles, and 2^53
ATwo53p1 == <<"9", "0", "0", "7", "1", "9", "9", "2", "5", "4", "7", "4", "0",
              "9", "9", "3", ".", "0", "0">>
ATwo53 == <<"9", "0", "0", "7", "1", "9", "9", "2", "5", "4", "7", "4", "0",
            "9", "9", "2", ".", "0", "0">>
\* 309 nines: above every double
AInf == [k \in 1..309 |-> "9"] \o <<".", "0", "0">>

\* the doubles 1.0, 100.0, 250.5, 1000.0, 1000.01 and 2^53
F1 == <<-52, 128, 0, 0, 0>>
F100 == <<-46, 200, 0, 0, 0>>
F250 == <<-45, 250, 16384, 0, 0>>
F1000 == <<-43, 250, 0, 0, 0>>
F1000p01 == <<-43, 250, 81, 30146, 18350>>
FTwo53 == <<1, 128, 0, 0, 0>>

\* the double k.0, for a small whole number k
amount_of(k) == from_hundredths(<<100 * k>>)

\* the example of the specification, section 8
ExampleLines ==
  << D0101 \o <<" ", "O", "P", "E", "N", "I", "N", "G", " ", "B", "A", "L", " ">>
       \o <<"1", "0", "0", "0", ".", "0", "0">>,
     D0501 \o <<" ", "S", "A", "L", "A", "R", "Y", " ", "C", "R", " ">>
       \o <<"5", "0", "0", "0", ".", "0", "0">> \o <<" ">>
       \o <<"6", "0", "0", "0", ".", "0", "0">>,
     D1001 \o <<" ", "A", "T", "M", " ", "W", "D", "L", " ", "D", "R", " ">>
       \o <<"2", "0", "0", ".", "0", "0">> \o <<" ">>
       \o <<"5", "8", "0", "0", ".", "0", "0">> >>

ExampleText == join_lines(ExampleLines)

\* --- whole requests (Spec) ---
MaxPipeLines == 2

\* names the handler takes and one it refuses; an absolute name, and one
\* with a directory
FileNames == {<<"a", ".", "p", "d", "f">>, <<"A", ".", "P", "D", "F">>,
              <<"a", ".", "t", "x", "t">>,
              <<"/", "t", "/", "a", ".", "p", "d", "f">>,
              <<"x", "/", "y", ".", "p", "d", "f">>}

Sizes == {None, Some(0), Some(max_file_size), Some(max_file_size + 1)}

PipeLines ==
  { <<" ">>,
    <<"">>,
    <<"X", " ", "1", ".", "0", "0">>,
    D0101 \o <<" ", "X">>,
    D0501 \o <<" ", "P", "A", "Y", " ">> \o A100,
    D0101 \o <<" ", "S", "A", "L", " ", "C", "R", " ">> \o A250 \o <<" ">> \o A1000,
    MD1501 \o <<" ", "X", " ">> \o UA100,
    D1001 \o <<" ", "X", " ">> \o A1 \o <<" ">> \o AInf }

PipeTexts ==
  {join_lines(ls) : ls \in SeqsOf(PipeLines, 1, MaxPipeLines)} \cup {ExampleText}

\* --- text to classified records (SpecCore) ---
MaxCoreLines == 2
MaxTokens == 3

\* monetary tokens of distinct values, so that the place of a token in its
\* line shows in the record
TokenList == <<A100, A1000, A250, A0, A100, A1000>>

\* lines with or without a date, with or without a marker, with 0..MaxTokens
\* monetary tokens
TokenLines ==
  { d \o w \o spaced(SubSeq(TokenList, 1, n)) :
      d \in {<<>>, D0101},
      w \in {<<" ", "A", "B">>, <<" ", "S", " ", "C", "R">>},
      n \in 0..MaxTokens }

\* blank lines; a line in Arabic-Indic digits; a marker before a vertical
\* tab; tokens of 16 digits and of 309
OtherLines ==
  { <<" ">>,
    <<"">>,
    <<"U+3000", " ">>,
    UD0101 \o <<" ", "X", " ">> \o UA100,
    D0101 \o <<" ", "X", "C", "R", "", " ">> \o A1,
    D0101 \o <<" ">> \o ATwo53p1 \o <<" ">> \o ATwo53,
    D0101 \o <<" ", "X", " ">> \o AInf }

CoreLines == TokenLines \cup OtherLines

CoreTexts == {join_lines(ls) : ls \in SeqsOf(CoreLines, 1, MaxCoreLines)}

\* --- records to classify (SpecClassify) ---
\* short sequences over every form of marker, longer ones over fewer forms
MaxRecords == 2
MaxLongRecords == 3

ClassifyDescs ==
  { <<"X">>,
    <<"p", "a", "y", " ", "c", "r">>,
    <<"A", "/", "C", "R", "/", "B">>,
    <<"X", "C", "R">>,
    <<"A", "T", "M", " ", "D", "R">>,
    <<"a", "/", "d", "r", "/", "b">>,
    <<"X", "D", "R">>,
    <<"N", " ", "D", "R", " ", "C", "R">>,
    <<"d", "e", "b", "i", "t">>,
    <<"C", "r", "e", "d", "i", "t", " ", "c", "a", "r", "d", " ", "D", "R">> }

ClassifyBalances == {None, Some(ZERO), Some(F1000), Some(F1000p01)}

\* a record as extract_transactions creates it
record(date, description, amount, balance) ==
  [date |-> date, description |-> description, amount |-> amount,
   balance |-> balance, type |-> "unknown"]

ClassifyRecords ==
  {record(D0101, d, F100, b) : d \in ClassifyDescs, b \in ClassifyBalances}

LongRecords ==
  {record(D0101, d, F100, b) :
     d \in {<<"X">>, <<"p", "a", "y", " ", "c", "r">>, <<"X", "D", "R">>},
     b \in {None, Some(ZERO), Some(F1000)}}

ClassifyInputs ==
  SeqsOf(ClassifyRecords, 1, MaxRecords) \cup SeqsOf(LongRecords, 1, MaxLongRecords)

\* a request inside apply_transaction_logic, before the first iteration
classifying(transactions) ==
  [idle EXCEPT !.pc = "classify", !.transactions = transactions, !.i = 1]

\* a request for a.pdf that has saved its upload
saved ==
  LET filename == <<"a", ".", "p", "d", "f">>
      file_id == CHOOSE u \in Uuids : u[32] = "1"
  IN [idle EXCEPT !.filename = filename, !.file_id = file_id,
                  !.written = {pdf_path(safe_name(filename, file_id))}]

(***************************************************************************)
(* Specifications                                                          *)
(***************************************************************************)
\* one upload request, from its arrival to its response
Init ==
  /\ \E filename \in FileNames, size \in Sizes, text \in PipeTexts :
       req = [r \in Requests |-> IF r = 1 THEN arrived(filename, size, text) ELSE idle]
  /\ files = {}
  /\ issued = {}

Spec == Init /\ [][Next]_vars

\* the core: from the extracted text to the classified records or the error
InitCore ==
  /\ \E text \in CoreTexts :
       req = [r \in Requests |->
                IF r = 1 THEN [idle EXCEPT !.pc = "check_text", !.text = text] ELSE idle]
  /\ files = {}
  /\ issued = {}

NextCore ==
  \E r \in Requests :
    \/ CheckText(r)
    \/ Extract(r)
    \/ ApplyLogicStep(r)
    \/ ApplyLogicReturn(r)
    \/ CheckEmpty(r)

SpecCore == InitCore /\ [][NextCore]_vars

\* apply_transaction_logic on the records of extract_transactions
InitClassify ==
  /\ \E transactions \in ClassifyInputs :
       req = [r \in Requests |-> IF r = 1 THEN classifying(transactions) ELSE idle]
  /\ files = {}
  /\ issued = {}

NextClassify ==
  \E r \in Requests :
    \/ ApplyLogicStep(r)
    \/ ApplyLogicReturn(r)

SpecClassify == InitClassify /\ [][NextClassify]_vars

\* --- the data frame: ties in long statements (SpecSort) ---
MaxSortLen == 18

\* n lines of one amount each (no balance, no marker), all of date D0101 but
\* line p, which has the date odd; the amount tells the lines apart
sort_input(n, p, odd) ==
  [k \in 1..n |->
     record(IF k = p THEN odd ELSE D0101, <<"X">>, amount_of(k), None)]

SortInputs ==
  {sort_input(n, p, odd) : n \in 1..MaxSortLen, p \in 0..MaxSortLen, odd \in {D0501, D3102}}

\* a request whose records are classified (here: all left unknown)
classified(transactions) ==
  [saved EXCEPT !.pc = "check_empty", !.transactions = transactions,
                !.i = Len(transactions) + 1]

InitSort ==
  /\ \E transactions \in SortInputs :
       req = [r \in Requests |-> IF r = 1 THEN classified(transactions) ELSE idle]
  /\ files = {[path |-> p, owner |-> 1] : p \in saved.written}
  /\ issued = {saved.file_id}

NextFrame ==
  \E r \in Requests :
    \/ CheckEmpty(r)
    \/ BuildFrame(r)
    \/ WriteCsv(r)
    \/ WriteExcel(r)
    \/ Respond(r)

SpecSort == InitSort /\ [][NextFrame]_vars

\* --- classified records to the summary (SpecSummary) ---
MaxFrameLen == 3

\* records of three dates with no balance, 0.00 or 1000.00, and one whose
\* balance is inf
SummaryRecords ==
  {record(d, <<"X">>, F100, b) :
     d \in {D0101, D0501, D3102}, b \in {None, Some(ZERO), Some(F1000)}}
    \cup {record(D0101, <<"X">>, F100, Some(INF))}

InitSummary ==
  /\ \E transactions \in SeqsOf(SummaryRecords, 0, MaxFrameLen) :
       req = [r \in Requests |->
                IF r = 1 THEN [saved EXCEPT !.pc = "classify",
                                            !.transactions = transactions, !.i = 1]
                ELSE idle]
  /\ files = {[path |-> p, owner |-> 1] : p \in saved.written}
  /\ issued = {saved.file_id}

NextSummary ==
  \E r \in Requests :
    \/ ApplyLogicStep(r)
    \/ ApplyLogicReturn(r)
    \/ CheckEmpty(r)
    \/ BuildFrame(r)
    \/ WriteCsv(r)
    \/ WriteExcel(r)
    \/ Respond(r)

SpecSummary == InitSummary /\ [][NextSummary]_vars

\* --- concurrent requests (SpecConc) ---
ConcFileNames == {<<"a", ".", "p", "d", "f">>, <<"/", "t", "/", "a", ".", "p", "d", "f">>}

ConcText == D0501 \o <<" ", "P", "A", "Y", " ">> \o A100

InitConc ==
  /\ \E names \in [Requests -> ConcFileNames] :
       req = [r \in Requests |-> arrived(names[r], None, ConcText)]
  /\ files = {}
  /\ issued = {}

SpecConc == InitConc /\ [][Next]_vars

(***************************************************************************)
(* Properties                                                              *)
(***************************************************************************)
IsDigitChar(c) == c \in Digits

\* the value of a monetary token in hundredths: its digits, read as one number
HundredthsOf(tok) == big_of_digits(SelectSeq(tok, IsDigitChar))

\* x < y, for whole numbers
BigLess(x, y) ==
  \/ Len(x) < Len(y)
  \/ /\ Len(x) = Len(y)
     /\ \E i \in 1..Len(x) : x[i] < y[i] /\ \A j \in (i + 1)..Len(x) : x[j] = y[j]

\* a hundred times the least number that is nearer to 2^1024 than to a
\* double, or as near: (2^54 - 1) * 2^970
Huge == big_shl(big_times(<<32767, 32767, 32767, 511>>, <<100>>), 970)

\* x is the double nearest to n / 100, the one of even significand when two
\* are as near, inf when 2^1024 is as near as a double or nearer.  With m the
\* significand of x and e its exponent, the distance of n / 100 from x is at
\* most half of 2^e, or a quarter for n / 100 below x = 2^52 * 2^e; the numbers
\* compared are the two sides times 200 * 2^s, for s = -e when e < 0.
RoundsTo(n, x) ==
  IF n = <<>> \/ x = ZERO THEN n = <<>> /\ x = ZERO
  ELSE IF x = INF \/ ~BigLess(n, Huge) THEN x = INF /\ ~BigLess(n, Huge)
  ELSE LET m == significand(x)
           s == IF x[1] < 0 THEN -x[1] ELSE 0
           t == IF x[1] > 0 THEN x[1] ELSE 0
           a == big_shl(n, s + 1)
           b == big_shl(big_times(m, <<100>>), t + 1)
           above == big_shl(<<100>>, t)
           below == IF m = TWO52 THEN big_shl(<<50>>, t) ELSE above
           even == m[1] % 2 = 0
       IN /\ x[1] \in -1074..971
          /\ x[2] \in 128..255
          /\ \A i \in 3..5 : x[i] \in 0..(BASE - 1)
          /\ \/ a = b
             \/ /\ BigLess(b, a)
                /\ \/ BigLess(a, big_add(b, above))
                   \/ a = big_add(b, above) /\ even
             \/ /\ BigLess(a, b)
                /\ \/ BigLess(b, big_add(a, below))
                   \/ b = big_add(a, below) /\ even

\* the description with c, d and r in upper case: every other character,
\* whatever its upper case is, is not a character of a marker
UpperCDR(d) ==
  [k \in 1..Len(d) |->
     CASE d[k] = "c" -> "C" [] d[k] = "d" -> "D" [] d[k] = "r" -> "R" [] OTHER -> d[k]]

HasSub(d, sub) ==
  \E k \in 1..Len(d) : k + Len(sub) - 1 <= Len(d) /\ SubSeq(d, k, k + Len(sub) - 1) = sub

EndsIn(d, sub) ==
  Len(d) >= Len(sub) /\ SubSeq(d, Len(d) - Len(sub) + 1, Len(d)) = sub

CreditMarked(txn) ==
  LET d == UpperCDR(txn.description)
  IN HasSub(d, <<" ", "C", "R">>) \/ HasSub(d, <<"/", "C", "R", "/">>) \/ EndsIn(d, <<"C", "R">>)

DebitMarked(txn) ==
  LET d == UpperCDR(txn.description)
  IN HasSub(d, <<" ", "D", "R">>) \/ HasSub(d, <<"/", "D", "R", "/">>) \/ EndsIn(d, <<"D", "R">>)

\* the records request r has been through in apply_transaction_logic
Processed(r) == 1..(req[r].i - 1)

\* the balance of the last of the first n records that has one
LastBalance(txns, n) ==
  LET have == {k \in 1..n : txns[k].balance # None}
  IN IF have = {} THEN None
     ELSE txns[CHOOSE k \in have : \A j \in have : j <= k].balance

\* C1: a record whose uppercased description has a credit marker (" CR",
\* "/CR/", or ends in "CR") is typed credit whatever the balances are;
\* otherwise one with a debit marker (" DR", "/DR/", ends in "DR") is typed
\* debit; the comparison of balances never overrides a marker.
C1_MarkerWins ==
  \A r \in Requests : \A k \in Processed(r) :
    LET txn == req[r].transactions[k]
    IN /\ CreditMarked(txn) => txn.type = "credit"
       /\ (~CreditMarked(txn) /\ DebitMarked(txn)) => txn.type = "debit"

\* a marked credit whose balance fell and a marked debit whose balance rose
C1_Witness ==
  /\ req[1].i = 4
  /\ LET t == req[1].transactions
     IN /\ t[1].balance = Some(F1000)
        /\ CreditMarked(t[2]) /\ t[2].balance = Some(ZERO) /\ t[2].type = "credit"
        /\ ~CreditMarked(t[3]) /\ DebitMarked(t[3])
        /\ t[3].balance = Some(F1000) /\ t[3].type = "debit"

\* C2: an iteration over a record without marker types it credit when the
\* previous balance and its balance are both present and the balance is
\* greater, debit when both are present and it is smaller, and leaves it
\* unknown when they are equal or when either is absent.
C2_BalanceDelta ==
  [][\A r \in Requests :
       (req[r].pc = "classify" /\ req'[r].i = req[r].i + 1) =>
         LET txn == req[r].transactions[req[r].i]
             prev == req[r].prev_balance
             both == prev # None /\ txn.balance # None
             after == req'[r].transactions[req[r].i].type
         IN (~CreditMarked(txn) /\ ~DebitMarked(txn)) =>
              after = IF both /\ less(prev[1], txn.balance[1]) THEN "credit"
                      ELSE IF both /\ less(txn.balance[1], prev[1]) THEN "debit"
                      ELSE "unknown"]_vars

\* records without marker: the first with a balance is left unknown, a rise
\* gives credit, an unchanged balance is left unknown
C2_Witness ==
  /\ req[1].i = 4
  /\ LET t == req[1].transactions
     IN /\ \A k \in 1..3 : ~CreditMarked(t[k]) /\ ~DebitMarked(t[k])
        /\ t[1].balance = Some(ZERO) /\ t[1].type = "unknown"
        /\ t[2].balance = Some(F1000) /\ t[2].type = "credit"
        /\ t[3].balance = Some(F1000) /\ t[3].type = "unknown"

\* C3: previous_balance starts absent and, after any prefix of the records,
\* is the balance of the last record of the prefix that has one (absent when
\* none has), however the records were typed; a balance of 0.00 is present.
C3_CarryForward ==
  \A r \in Requests :
    req[r].pc \in {"classify", "check_empty"} =>
      req[r].prev_balance = LastBalance(req[r].transactions, req[r].i - 1)

\* a balance of 0.00 set by a marked record and carried over a record without
\* balance
C3_Witness ==
  /\ req[1].i = 4
  /\ LET t == req[1].transactions
     IN /\ t[1].balance = Some(F1000)
        /\ t[2].balance = Some(ZERO) /\ CreditMarked(t[2])
        /\ t[3].balance = None
  /\ req[1].prev_balance = Some(ZERO)

\* a line with a date token and a monetary token
Qualifies(line) ==
  (\E k \in 1..Len(line) : DATE_PATTERN(line, k)) /\ findall(line) # <<>>

\* C4: the records of extract_transactions are those of the lines that have
\* a date token and at least one monetary token, in the order of the lines;
\* with one monetary token it is the amount and the balance is absent, with
\* two or more the last is the balance and the one before it the amount, the
\* value of a token being the float nearest to the number it writes; every
\* record is created with type unknown.
C4_AmountBalance ==
  \A r \in Requests :
    (req[r].pc = "classify" /\ req[r].i = 1) =>
      LET lines == SelectSeq(split_lines(req[r].text), Qualifies)
          t == req[r].transactions
      IN /\ Len(t) = Len(lines)
         /\ \A k \in 1..Len(lines) :
              LET toks == findall(lines[k])
                  n == Len(toks)
              IN /\ t[k].type = "unknown"
                 /\ n = 1 => /\ RoundsTo(HundredthsOf(toks[1]), t[k].amount)
                             /\ t[k].balance = None
                 /\ n >= 2 => /\ RoundsTo(HundredthsOf(toks[n - 1]), t[k].amount)
                              /\ t[k].balance # None
                              /\ RoundsTo(HundredthsOf(toks[n]), t[k].balance[1])

\* a line of one token and a line of three, whose first token is ignored
C4_Witness ==
  /\ req[1].pc = "classify" /\ req[1].i = 1
  /\ LET lines == split_lines(req[1].text)
         t == req[1].transactions
     IN /\ Len(lines) = 2 /\ Len(t) = 2
        /\ findall(lines[1]) = <<A100>>
        /\ findall(lines[2]) = <<A100, A1000, A250>>
        /\ t[1].amount = F100 /\ t[1].balance = None
        /\ t[2].amount = F1000 /\ t[2].balance = Some(F250)

\* the export files request r has written
Exports(r) ==
  {f \in files : /\ f.owner = r
                 /\ \/ EndsIn(f.path, <<".", "c", "s", "v">>)
                    \/ EndsIn(f.path, <<".", "x", "l", "s", "x">>)}

TypesOf(df) == [k \in 1..Len(df) |-> df[k].type]

\* C5 as the specification states it: the three example lines give 3 records
\* typed unknown, credit, debit, total_credit 5000.00, total_debit 200.00,
\* opening_balance 1000.00 and closing_balance 5800.00.
C5_Example ==
  \A r \in Requests :
    (req[r].pc = "done" /\ req[r].status = 200 /\ req[r].text = ExampleText) =>
      /\ TypesOf(req[r].df) = <<"unknown", "credit", "debit">>
      /\ req[r].summary =
           Some([total_transactions |-> 3,
                 total_credit |-> <<-40, 156, 8192, 0, 0>>,
                 total_debit |-> <<-45, 200, 0, 0, 0>>,
                 opening_balance |-> Some(<<-43, 250, 0, 0, 0>>),
                 closing_balance |-> Some(<<-40, 181, 8192, 0, 0>>)])

\* C5, amended: as above, but opening_balance is 6000.00: the first line has
\* a single monetary token, so its record has an amount and no balance, and
\* the first balance in date order is that of the second line.
C5_ExampleAmended ==
  \A r \in Requests :
    (req[r].pc = "done" /\ req[r].status = 200 /\ req[r].text = ExampleText) =>
      /\ TypesOf(req[r].df) = <<"unknown", "credit", "debit">>
      /\ req[r].summary =
           Some([total_transactions |-> 3,
                 total_credit |-> <<-40, 156, 8192, 0, 0>>,
                 total_debit |-> <<-45, 200, 0, 0, 0>>,
                 opening_balance |-> Some(<<-40, 187, 16384, 0, 0>>),
                 closing_balance |-> Some(<<-40, 181, 8192, 0, 0>>)])

\* the example has been processed to its response
C5_Witness ==
  req[1].pc = "done" /\ req[1].status = 200 /\ req[1].text = ExampleText

NoDateLine(text) ==
  LET lines == split_lines(text)
  IN \A n \in 1..Len(lines) : \A k \in 1..Len(lines[n]) : ~DATE_PATTERN(lines[n], k)

Blank(text) == \A k \in 1..Len(text) : text[k] \in Whitespace

\* C6: for a text none of whose lines matches the date pattern, extraction
\* yields no record and the request ends with the error "No transactions
\* found" (status 400, no crash); a blank or whitespace-only text ends with
\* the distinct error "Empty or scanned PDF" instead.
C6_NoTransactionsFound ==
  \A r \in Requests :
    (req[r].pc # "idle" /\ NoDateLine(req[r].text)) =>
      /\ req[r].transactions = <<>>
      /\ req[r].pc # "frame"
      /\ req[r].pc = "done" =>
           /\ req[r].status = 400
           /\ req[r].detail = IF Blank(req[r].text) THEN "Empty or scanned PDF"
                              ELSE "No transactions found"

\* two lines with monetary tokens and no date, reported as no transactions
C6_Witness ==
  /\ req[1].pc = "done" /\ req[1].detail = "No transactions found"
  /\ NoDateLine(req[1].text)
  /\ LET lines == split_lines(req[1].text)
     IN Len(lines) = 2 /\ \A n \in 1..2 : findall(lines[n]) # <<>>

\* C7: export files are written only once the records are there and all
\* classified, and a request that ends in a failure leaves no export file,
\* never exactly one of the two.
C7_NoPartialExport ==
  \A r \in Requests :
    /\ Exports(r) # {} =>
         /\ req[r].transactions # <<>>
         /\ req[r].i > Len(req[r].transactions)
    /\ (req[r].pc = "done" /\ req[r].status # 200) => Exports(r) = {}
    /\ req[r].pc = "done" => Cardinality(Exports(r)) # 1

\* the place of row a of the frame in the stable ascending order of the dates
\* (rows whose date did not parse after all others, in their own order)
DateKey(row) == IF row.date = None THEN 99999999 ELSE row.date[1]

StablePlace(frame, a) ==
  1 + Cardinality({b \in 1..Len(frame) :
                     \/ DateKey(frame[b]) < DateKey(frame[a])
                     \/ DateKey(frame[b]) = DateKey(frame[a]) /\ b < a})

\* C8: the sequence exported and summarised is the records of
\* extract_transactions (which are in the order of their lines) in ascending
\* order of date, records of the same date keeping the order of their lines.
C8_StableDateOrder ==
  \A r \in Requests :
    req[r].pc \in {"csv", "excel", "respond", "done"} =>
      LET frame == data_frame(req[r].transactions)
      IN /\ Len(req[r].df) = Len(frame)
         /\ \A a \in 1..Len(frame) : req[r].df[StablePlace(frame, a)] = frame[a]

\* C9: the summary of a response is computed from the rows, whatever they
\* are: its opening balance is the balance of the first row, in the order of
\* the sorted frame, that has a balance, its closing balance that of the last
\* such row; both are absent when no row has a balance; total_transactions is
\* the number of rows.  A request answered with success has a summary.
C9_OpeningClosing ==
  \A r \in Requests :
    /\ (req[r].pc = "done" /\ req[r].status = 200) => req[r].summary # None
    /\ req[r].summary # None =>
         LET df == req[r].df
             summary == req[r].summary[1]
             have == {k \in 1..Len(df) : df[k].balance # None}
             first == CHOOSE k \in have : \A j \in have : k <= j
             last == CHOOSE k \in have : \A j \in have : k >= j
         IN /\ df # <<>>
            /\ summary.total_transactions = Len(df)
            /\ Len(df) = Len(req[r].transactions)
            /\ summary.opening_balance = IF have = {} THEN None ELSE df[first].balance
            /\ summary.closing_balance = IF have = {} THEN None ELSE df[last].balance

\* three rows, reordered by date, the first without a balance
C9_Witness ==
  /\ req[1].pc = "done" /\ req[1].status = 200
  /\ Len(req[1].df) = 3
  /\ req[1].transactions[1].date = D0501
  /\ req[1].df[1].balance = None /\ req[1].df[1].date = Some(20240101)
  /\ req[1].df[2].balance = Some(F1000)
  /\ req[1].df[3].balance = Some(ZERO)
  /\ req[1].summary[1].opening_balance = Some(F1000)
  /\ req[1].summary[1].closing_balance = Some(ZERO)

\* the path ends in the identifier and one of the three extensions
Suffixed(p, file_id) ==
  \E ext \in {<<".", "p", "d", "f">>, <<".", "c", "s", "v">>, <<".", "x", "l", "s", "x">>} :
    EndsIn(p, <<"_">> \o file_id \o ext)

\* what the requests have written so far is kept apart
Apart ==
  \A r \in Requests :
    /\ \A p \in req[r].written :
         /\ Suffixed(p, req[r].file_id)
         /\ [path |-> p, owner |-> r] \in files
    /\ \A q \in Requests \ {r} : req[r].written \cap req[q].written = {}

\* a step is the step of one request: it changes the variables of no other
\* request and no file but files of its own paths
OwnStep ==
  \E r \in Requests :
    /\ \A q \in Requests \ {r} : req'[q] = req[q]
    /\ \A f \in files : f.owner # r => f \in files'
    /\ \A f \in files' \ files : f.owner = r /\ f.path \in req'[r].written

\* C10: whatever the interleaving, every path a request writes (the copy of
\* the upload, the two exports) ends in the identifier of that request, no
\* two requests write the same path, and what a request has written stays as
\* it wrote it; the requests share nothing but the files: every step changes
\* the variables of one request only and only files of that request's paths.
C10_Isolation == []Apart /\ [][OwnStep]_vars

\* two uploads of the same file name, both answered, three files each
C10_Witness ==
  /\ req[1].filename = req[2].filename
  /\ \A r \in {1, 2} :
       req[r].pc = "done" /\ req[r].status = 200 /\ Cardinality(req[r].written) = 3
  /\ Cardinality(files) >= 6

====
